---- MODULE Spec2Model ----
(***************************************************************************)
(* A model of ResumeStore (src/backend/resume_agents.py): the JSON ledger  *)
(* of profiles and feedback, the vector store of resume chunks, and the    *)
(* two-stage job matcher with its LLM scoring oracle; and of the resume    *)
(* validator and the summarising client with its retry loop               *)
(* (src/backend/resume_analyzer_v7.py).                                    *)
(*                                                                         *)
(* Strings the code parses are sequences of one-character strings.  A      *)
(* match_score is kept in hundredths: [nan |-> FALSE, v |-> 85] is the     *)
(* Python float 0.85, [nan |-> TRUE, v |-> 0] is float('nan').             *)
(***************************************************************************)
EXTENDS Integers, Sequences, FiniteSets, TLC

\* ------------------------------------------------------------------ bounds

\* top_n is drawn from 0..MaxTopN
MaxTopN == 3
\* a profile's feedback list is driven up to this length
MaxFeedback == 2
\* a resume text splits into at most this many chunks
MaxChunks == 2
MaxParagraphs == 4

\* similarity_search(job_description, k=10)
RecallWidth == 10

\* ------------------------------------------------------------- universes

\* opaque resume ids (file ids)
ProfileIds == {"A", "B", "C"}
\* opaque summaries produced upstream
Summaries == {"sum1", "sum2"}
\* metadata mappings; "none" is the default {} of add_resume
Metadatas == {"none", "meta1"}
\* a resume text is known by the number of chunks the splitter cuts it into
Texts == 0..MaxChunks
\* processes that each hold a ResumeStore on the same db_path and the same
\* PERSIST_DIRECTORY
Stores == {"w1", "w2"}
\* feedback_text values
FeedbackTexts == {"t1", "t2"}

\* ---------------------------------------------------- score parsing (pure)

DigitChars == <<"0", "1", "2", "3", "4", "5", "6", "7", "8", "9">>

IsDigit(c) == \E i \in 1..10 : DigitChars[i] = c

DigitVal(c) == (CHOOSE i \in 1..10 : DigitChars[i] = c) - 1

IsSpace(c) == c \in {" ", "\n", "\t"}

RECURSIVE LStrip(_)
LStrip(s) == IF s # <<>> /\ IsSpace(Head(s)) THEN LStrip(Tail(s)) ELSE s

RECURSIVE RStrip(_)
RStrip(s) ==
  IF s # <<>> /\ IsSpace(s[Len(s)]) THEN RStrip(SubSeq(s, 1, Len(s) - 1)) ELSE s

\* str.strip()
Strip(s) == RStrip(LStrip(s))

IsNotPct(c) == c # "%"

\* str.replace('%', '')
RemovePct(s) == SelectSeq(s, IsNotPct)

RECURSIVE DecVal(_)
DecVal(s) ==
  IF s = <<>> THEN 0 ELSE 10 * DecVal(SubSeq(s, 1, Len(s) - 1)) + DigitVal(s[Len(s)])

\* float(x) on the characters the oracle texts of this model use: optional
\* surrounding whitespace, an optional sign, then decimal digits or "nan".
\* ok = FALSE is ValueError.  v is the value itself (not yet divided).
PyFloat(s) ==
  LET t == Strip(s)
      signed == t # <<>> /\ Head(t) \in {"-", "+"}
      neg == t # <<>> /\ Head(t) = "-"
      body == IF signed THEN Tail(t) ELSE t
  IN  IF body = <<"n", "a", "n">>
        THEN [ok |-> TRUE, nan |-> TRUE, v |-> 0]
      ELSE IF body # <<>> /\ \A i \in 1..Len(body) : IsDigit(body[i])
        THEN [ok |-> TRUE, nan |-> FALSE,
              v |-> IF neg THEN 0 - DecVal(body) ELSE DecVal(body)]
      ELSE [ok |-> FALSE, nan |-> FALSE, v |-> 0]

\* the int 0 the code returns when it cannot produce a score
ZeroScore == [nan |-> FALSE, v |-> 0]

\* an unparseable text defaults to the full score instead of 0
ParseScoreFailOpen(result) ==
  LET f == PyFloat(RemovePct(Strip(result)))
  IN  IF f.ok THEN [nan |-> f.nan, v |-> f.v] ELSE [nan |-> FALSE, v |-> 100]

\* float(cleaned_result) / 100, in hundredths
ParseScore(result) ==
  LET f == PyFloat(RemovePct(Strip(result)))
  IN  IF f.ok THEN [nan |-> f.nan, v |-> f.v] ELSE ZeroScore

\* An oracle response: up = FALSE is chain.run raising (the LLM endpoint is
\* unreachable), otherwise text is what it returned.
CalculateMatchScore(response) ==
  IF response.up THEN ParseScore(response.text) ELSE ZeroScore

\* Python's x < y on floats: every comparison with nan is False
ScoreLt(x, y) == ~x.nan /\ ~y.nan /\ x.v < y.v

\* x >= y on floats
ScoreGe(x, y) == ~x.nan /\ ~y.nan /\ x.v >= y.v

\* ------------------------------------------------------ list.sort (pure)

Reverse(s) == [i \in 1..Len(s) |-> s[Len(s) + 1 - i]]

\* listsort's count_run: the run the list starts with goes on while the next
\* key compares to its predecessor as the first pair did
RECURSIVE RunEnd(_, _, _)
RunEnd(a, i, desc) ==
  IF i > Len(a) THEN Len(a)
  ELSE IF ScoreLt(a[i].match_score, a[i - 1].match_score) = desc
    THEN RunEnd(a, i + 1, desc)
    ELSE i - 1

CountRun(a) ==
  IF Len(a) <= 1 THEN [n |-> Len(a), desc |-> FALSE]
  ELSE LET desc == ScoreLt(a[2].match_score, a[1].match_score)
       IN  [n |-> RunEnd(a, 3, desc), desc |-> desc]

\* binarysort's search for the place of x in the sorted list s: l elements
\* stay to its left
RECURSIVE BinPos(_, _, _, _)
BinPos(s, x, l, r) ==
  IF l < r
    THEN LET p == l + ((r - l) \div 2)
         IN  IF ScoreLt(x.match_score, s[p + 1].match_score)
               THEN BinPos(s, x, l, p)
               ELSE BinPos(s, x, p + 1, r)
    ELSE l

BinaryInsert(s, x) ==
  LET l == BinPos(s, x, 0, Len(s))
  IN  SubSeq(s, 1, l) \o <<x>> \o SubSeq(s, l + 1, Len(s))

RECURSIVE BinarySort(_, _)
BinarySort(s, rest) ==
  IF rest = <<>> THEN s ELSE BinarySort(BinaryInsert(s, Head(rest)), Tail(rest))

\* list.sort on a list shorter than 64: the leading run (reversed if it
\* descends strictly), then binary insertion of the rest
SortAsc(a) ==
  LET run == CountRun(a)
      first == SubSeq(a, 1, run.n)
  IN  BinarySort(IF run.desc THEN Reverse(first) ELSE first,
                 SubSeq(a, run.n + 1, Len(a)))

\* matches.sort(key=match_score, reverse=True): the list is reversed, sorted
\* in ascending key order with <, and reversed again
SortByScoreDesc(s) == Reverse(SortAsc(Reverse(s)))

Min(a, b) == IF a < b THEN a ELSE b

\* the slice left out: the whole sorted list is returned
TruncateNone(s, n) == s

\* matches[:top_n], top_n >= 0
Truncate(s, n) == SubSeq(s, 1, Min(n, Len(s)))

\* ------------------------------------------------------------------ state

VARIABLES
  resumes,    \* resumes[s]: self.resumes["resumes"] of store s
  dbfile,     \* the JSON file at db_path
  index,      \* the Chroma collection, keyed by (resume_id, chunk_id)
  completed,  \* history: completed[s] = ids whose add_resume on s returned
  lastIngest, \* history: how the latest add_resume on s for each id ended
  calls,      \* the add_feedback calls in flight, one slot per caller thread
  resp,       \* what the last operation returned to its caller
  client      \* the OllamaClient.summarize_resume call in progress

vars == <<resumes, dbfile, index, completed, lastIngest, calls, resp, client>>

\* no entry under this id
Absent ==
  [present |-> FALSE, summary |-> "", metadata |-> "none", hasFb |-> FALSE,
   feedback |-> <<>>]

\* {"summary": summary, "metadata": metadata}: no "feedback" key
NewEntry(summary, metadata) ==
  [present |-> TRUE, summary |-> summary, metadata |-> metadata, hasFb |-> FALSE,
   feedback |-> <<>>]

\* {"resumes": {}}
EmptyLedger == [id \in ProfileIds |-> Absent]

ChunkSlots == 0..(MaxChunks - 1)

ChunkKeys == ProfileIds \X ChunkSlots

NoChunk == [present |-> FALSE, text |-> 0, metadata |-> "none", copies |-> 0]

EmptyIndex == [k \in ChunkKeys |-> NoChunk]

\* json.load of the file: a missing or unparseable file gives {"resumes": {}}
LoadDb(f) == IF f.valid THEN f.db ELSE EmptyLedger

\* the outcomes of _save_db: written; open() raised and the file is as it
\* was; json.dump raised after open(..., 'w') had truncated the file
SaveOutcomes == {"none", "open", "dump"}

\* a save that leaves the write to a later flush: the file is not touched
SaveDbBuffered(f, ledger, fault) == f

SaveDb(f, ledger, fault) ==
  IF fault = "open" THEN f
  ELSE IF fault = "dump" THEN [valid |-> FALSE, db |-> EmptyLedger]
  ELSE [valid |-> TRUE, db |-> ledger]

\* text_splitter.split_text(resume_text): text t gives t chunks, each
\* carrying the text it was cut from
SplitText(t) == [i \in 1..t |-> t]

\* the scoring oracle was not called for this id
NotAsked == [asked |-> FALSE, up |-> TRUE, text |-> <<>>]

\* A document text as ResumeValidator reads it: its characters (blanks and
\* letters), and how many patterns of each family re.search and re.findall
\* find in it.  NoDoc is the empty string.
NoDoc == [chars |-> <<>>, sections |-> 0, jobs |-> 0, dates |-> 0, techs |-> 0]

\* the dict get_feedback_stats returns, before anything was counted
NoStats ==
  [total_positive |-> 0, total_negative |-> 0,
   resume_count_with_feedback |-> 0, total_resume_count |-> 0]

Idle ==
  [op |-> "idle", store |-> "", id |-> "", raised |-> FALSE, value |-> "",
   summary |-> "", metadata |-> "none", text |-> 0, again |-> FALSE,
   matches |-> <<>>, top_n |-> 0, fault |-> "none", retry |-> FALSE,
   search_failed |-> FALSE, oracle |-> [id \in ProfileIds |-> NotAsked],
   entry |-> Absent, stats |-> NoStats, resolved |-> <<>>,
   hits |-> <<>>, results |-> <<>>,
   doc |-> NoDoc, verdict |-> FALSE, confidence |-> 0, explanation |-> <<>>,
   status |-> 0, stage |-> "",
   resume_ids |-> <<>>, extraction |-> "", key_terms |-> "",
   rank_called |-> FALSE, rank_key_terms |-> "",
   paragraphs |-> <<>>, chunks |-> <<>>,
   event |-> <<>>]

NoEvent == [is_positive |-> FALSE, text |-> ""]

IdleCall == [pc |-> "idle", store |-> "", id |-> "", ev |-> NoEvent, value |-> ""]

Callers == {"c1", "c2"}

\* OllamaClient.summarize_resume is not running
IdleClient ==
  [pc |-> "idle", retries |-> 0, attempt |-> 0, posts |-> 0, waits |-> <<>>,
   outcomes |-> <<>>, result |-> "", error |-> ""]

Init ==
  /\ resumes = [s \in Stores |-> EmptyLedger]
  /\ dbfile = [valid |-> TRUE, db |-> EmptyLedger]
  /\ index = EmptyIndex
  /\ completed = [s \in Stores |-> {}]
  /\ lastIngest = [s \in Stores |-> [id \in ProfileIds |-> "never"]]
  /\ calls = [c \in Callers |-> IdleCall]
  /\ resp = Idle
  /\ client = IdleClient

\* ------------------------------------------------------------- add_resume

\* where an add_resume call can raise: in _save_db, in the add_texts call
\* for chunk k, in persist()
IngestFaults == SaveOutcomes \cup {"add_texts", "persist"}

\* the chunks written before the call stops: all of them unless add_texts
\* raised at chunk k
ChunksWritten(text, fault, k) ==
  IF fault \in {"open", "dump"} THEN 0
  ELSE IF fault = "add_texts" THEN k
  ELSE Len(SplitText(text))

\* add_texts called without ids=: the collection gives every chunk a fresh
\* id, so a chunk written again is stored beside the one already there
IndexAfterFreshIds(idx, id, text, metadata, n) ==
  [key \in ChunkKeys |->
     IF key[1] = id /\ key[2] < n
       THEN [present |-> TRUE, text |-> SplitText(text)[key[2] + 1],
             metadata |-> metadata, copies |-> idx[key].copies + 1]
       ELSE idx[key]]

\* vector_store.add_texts(ids=[f"{resume_id}_chunk_{i}"]) for i < n.  The
\* collection keys its documents by id and add_texts upserts: a chunk written
\* under an id the collection holds replaces it, so one copy is stored
IndexAfter(idx, id, text, metadata, n) ==
  [key \in ChunkKeys |->
     IF key[1] = id /\ key[2] < n
       THEN [present |-> TRUE, text |-> SplitText(text)[key[2] + 1],
             metadata |-> metadata, copies |-> 1]
       ELSE idx[key]]

\* what a returned add_resume(id, text, summary, metadata) writes: the entry
\* of lines 65-68 and one chunk under each id of lines 75-80
WrittenBy(ledger, idx, id, text, summary, metadata) ==
  /\ ledger[id] = NewEntry(summary, metadata)
  /\ \A i \in 1..Len(SplitText(text)) :
       idx[<<id, i - 1>>] = [present |-> TRUE, text |-> SplitText(text)[i],
                            metadata |-> metadata, copies |-> 1]

LedgerAfterAdd(ledger, id, summary, metadata) ==
  [ledger EXCEPT ![id] = NewEntry(summary, metadata)]

\* the vector-store writes wrapped in a try/except that swallows their
\* failure: only a failed save raises
AddResumeRaisesOnlySave(fault) == fault \in {"open", "dump"}

\* add_resume has no handler of its own: whatever _save_db, add_texts or
\* persist raises reaches the caller, and only a call without fault returns
AddResumeRaises(fault) == fault # "none"

AddResume(s, id, text, summary, metadata, fault, k) ==
  /\ resp = Idle
  /\ fault = "add_texts" => k < Len(SplitText(text))
  /\ fault # "add_texts" => k = 0
  /\ resumes' = [resumes EXCEPT ![s] = LedgerAfterAdd(@, id, summary, metadata)]
  /\ dbfile' = SaveDb(dbfile, resumes'[s],
                      IF fault \in SaveOutcomes THEN fault ELSE "none")
  /\ index' = IndexAfter(index, id, text, metadata, ChunksWritten(text, fault, k))
  /\ completed' = IF fault = "none"
                    THEN [completed EXCEPT ![s] = @ \cup {id}]
                    ELSE completed
  /\ resp' = [Idle EXCEPT !.op = "add_resume", !.store = s, !.id = id,
                          !.raised = AddResumeRaises(fault),
                          !.value = IF AddResumeRaises(fault) THEN "" ELSE id,
                          !.summary = summary, !.metadata = metadata,
                          !.text = text, !.fault = fault,
                          !.again = WrittenBy(resumes[s], index, id, text,
                                              summary, metadata),
                          !.retry = (lastIngest[s][id] = "index_failed")]
  /\ lastIngest' = [lastIngest EXCEPT ![s][id] =
                      IF fault = "none" THEN "ok"
                      ELSE IF fault \in SaveOutcomes THEN "save_failed"
                      ELSE "index_failed"]
  /\ UNCHANGED <<calls, client>>

\* ResumeStore(): self.resumes = self._load_db()
Restart(s) ==
  /\ resp = Idle
  /\ resumes' = [resumes EXCEPT ![s] = LoadDb(dbfile)]
  /\ resp' = [Idle EXCEPT !.op = "restart", !.store = s]
  /\ UNCHANGED <<dbfile, index, completed, lastIngest, calls, client>>

\* the caller has its answer; the next request can come
Reply ==
  /\ resp # Idle
  /\ resp' = Idle
  /\ UNCHANGED <<resumes, dbfile, index, completed, lastIngest, calls, client>>

\* ----------------------------------------------------------- add_feedback

\* {"timestamp": time.time(), "is_positive": ..., "text": ...}; the timestamp
\* is left out
Event(is_positive, text) == [is_positive |-> is_positive, text |-> text]

\* the new event put in front of the list
EntryAfterFeedbackPrepending(entry, ev) ==
  [entry EXCEPT !.hasFb = TRUE,
                !.feedback = <<ev>> \o (IF entry.hasFb THEN entry.feedback ELSE <<>>)]

\* lines 174-182: create the "feedback" list if the key is missing, append
EntryAfterFeedback(entry, ev) ==
  [entry EXCEPT !.hasFb = TRUE,
                !.feedback = Append(IF entry.hasFb THEN entry.feedback ELSE <<>>, ev)]

\* add_feedback as one uninterrupted call
AddFeedback(s, id, is_positive, text, fault) ==
  /\ resp = Idle
  /\ IF ~resumes[s][id].present
       THEN /\ fault = "none"
            /\ resp' = [Idle EXCEPT !.op = "add_feedback", !.store = s, !.id = id,
                                    !.value = "False"]
            /\ UNCHANGED <<resumes, dbfile>>
       ELSE /\ Len(resumes[s][id].feedback) < MaxFeedback
            /\ resumes' = [resumes EXCEPT ![s][id] =
                             EntryAfterFeedback(@, Event(is_positive, text))]
            /\ dbfile' = SaveDb(dbfile, resumes'[s], fault)
            /\ resp' = [Idle EXCEPT !.op = "add_feedback", !.store = s, !.id = id,
                                    !.raised = (fault # "none"),
                                    !.value = IF fault = "none" THEN "True" ELSE "",
                                    !.fault = fault,
                                    !.event = <<Event(is_positive, text)>>]
  /\ UNCHANGED <<index, completed, lastIngest, calls, client>>

\* add_feedback interleaved with other callers, in three steps: the
\* membership check (line 170), the in-memory append (lines 174-182) and the
\* whole-file save (line 184)
FbCall(c, s, id, is_positive, text) ==
  /\ calls[c].pc = "idle"
  /\ calls' = [calls EXCEPT ![c] = [pc |-> "check", store |-> s, id |-> id,
                                    ev |-> Event(is_positive, text), value |-> ""]]
  /\ UNCHANGED <<resumes, dbfile, index, completed, lastIngest, resp, client>>

FbCheck(c) ==
  /\ calls[c].pc = "check"
  /\ calls' = [calls EXCEPT ![c] =
                 IF resumes[calls[c].store][calls[c].id].present
                   THEN [@ EXCEPT !.pc = "append"]
                   ELSE [@ EXCEPT !.pc = "done", !.value = "False"]]
  /\ UNCHANGED <<resumes, dbfile, index, completed, lastIngest, resp, client>>

FbAppend(c) ==
  /\ calls[c].pc = "append"
  /\ resumes' = [resumes EXCEPT ![calls[c].store][calls[c].id] =
                   EntryAfterFeedback(@, calls[c].ev)]
  /\ calls' = [calls EXCEPT ![c].pc = "save"]
  /\ UNCHANGED <<dbfile, index, completed, lastIngest, resp, client>>

FbSave(c) ==
  /\ calls[c].pc = "save"
  /\ dbfile' = SaveDb(dbfile, resumes[calls[c].store], "none")
  /\ calls' = [calls EXCEPT ![c].pc = "done", ![c].value = "True"]
  /\ UNCHANGED <<resumes, index, completed, lastIngest, resp, client>>

\* --------------------------------------------------- match_job_description

\* get_resume answering with an empty profile for an id it does not hold
GetResumeDefault(ledger, rid) ==
  IF ledger[rid].present THEN ledger[rid] ELSE NewEntry("", "none")

\* get_resume(rid): the entry, or None
GetResume(ledger, rid) == ledger[rid]

\* the texts the scoring oracle answers with in this model
OracleTexts ==
  { <<"8", "5">>,             \* 85
    <<" ", "4", "0", "%">>,   \* 40 after strip and replace
    <<"1", "5", "0">>,        \* above the scale
    <<"-", "2", "0">>,        \* below the scale
    <<"n", "a", "n">>,        \* float() reads it as nan
    <<"g", "o", "o", "d">> }  \* not a number

OracleResponses ==
  [asked : {TRUE}, up : {TRUE}, text : OracleTexts]
    \cup {[asked |-> TRUE, up |-> FALSE, text |-> <<>>]}

\* the keys of the chunks the collection holds
StoredKeys(idx) == {key \in ChunkKeys : idx[key].present}

\* similarity_search(query, k): the k nearest chunks, all of them when the
\* collection holds fewer; which ones are nearest is the embedding's choice
SearchResults(idx, k) ==
  {hits \in SUBSET StoredKeys(idx) :
     Cardinality(hits) = Min(k, Cardinality(StoredKeys(idx)))}

\* set([doc.metadata["resume_id"] for doc in results])
RecalledIds(hits) == {key[1] : key \in hits}

\* the orders in which iterating a Python set can yield its elements
Orders(S) ==
  {q \in [1..Cardinality(S) -> S] : \A i, j \in 1..Cardinality(S) : i # j => q[i] # q[j]}

\* the `if resume:` test left out: every recalled id is scored and returned
RECURSIVE BuildMatchesUnchecked(_, _, _)
BuildMatchesUnchecked(order, ledger, responses) ==
  IF order = <<>> THEN <<>>
  ELSE LET rid == Head(order)
           resume == GetResume(ledger, rid)
       IN  <<[id |-> rid, summary |-> resume.summary,
              match_score |-> CalculateMatchScore(responses[rid]),
              metadata |-> resume.metadata]>>
             \o BuildMatchesUnchecked(Tail(order), ledger, responses)

\* lines 113-123: the recalled ids that resolve in the ledger, each scored
RECURSIVE BuildMatches(_, _, _)
BuildMatches(order, ledger, responses) ==
  IF order = <<>> THEN <<>>
  ELSE LET rid == Head(order)
           resume == GetResume(ledger, rid)
           rest == BuildMatches(Tail(order), ledger, responses)
       IN  IF resume.present
             THEN <<[id |-> rid, summary |-> resume.summary,
                     match_score |-> CalculateMatchScore(responses[rid]),
                     metadata |-> resume.metadata]>> \o rest
             ELSE rest

\* lines 125-127
RankMatches(matches, top_n) == Truncate(SortByScoreDesc(matches), top_n)

\* what the oracle answers: one response for each id in asked
ResponsesFor(asked) ==
  {[id \in ProfileIds |-> IF id \in asked THEN g[id] ELSE NotAsked] :
     g \in [asked -> OracleResponses]}

\* the recalled ids that get_resume resolves
Resolved(ledger, ids) == {rid \in ids : GetResume(ledger, rid).present}

\* match_job_description keeping what it computed: every profile it scored
\* gets a note in its ledger entry's metadata
MatchJobDescriptionNoting(s, top_n) ==
  /\ resp = Idle
  /\ \E hits \in SearchResults(index, RecallWidth) :
       \E order \in Orders(RecalledIds(hits)) :
         \E responses \in ResponsesFor(Resolved(resumes[s], RecalledIds(hits))) :
           /\ resp' = [Idle EXCEPT
                         !.op = "match", !.store = s, !.top_n = top_n,
                         !.oracle = responses,
                         !.resolved = BuildMatches(order, resumes[s], responses),
                         !.matches = RankMatches(
                                       BuildMatches(order, resumes[s], responses),
                                       top_n)]
           /\ resumes' = [resumes EXCEPT ![s] =
                            [id \in ProfileIds |->
                               IF id \in Resolved(resumes[s], RecalledIds(hits))
                                 THEN [resumes[s][id] EXCEPT !.metadata = "meta1"]
                                 ELSE resumes[s][id]]]
  /\ UNCHANGED <<dbfile, index, completed, lastIngest, calls, client>>

\* One match_job_description call.  Either similarity_search raises, which
\* the handler's except turns into [], or it returns hits; the id set is
\* iterated in some order and the oracle answers for each resolved id.
MatchJobDescription(s, top_n) ==
  /\ resp = Idle
  /\ \/ resp' = [Idle EXCEPT !.op = "match", !.store = s, !.top_n = top_n,
                             !.search_failed = TRUE]
     \/ \E hits \in SearchResults(index, RecallWidth) :
          \E order \in Orders(RecalledIds(hits)) :
            \E responses \in ResponsesFor(Resolved(resumes[s], RecalledIds(hits))) :
              resp' = [Idle EXCEPT
                         !.op = "match", !.store = s, !.top_n = top_n,
                         !.oracle = responses,
                         !.resolved = BuildMatches(order, resumes[s], responses),
                         !.matches = RankMatches(
                                       BuildMatches(order, resumes[s], responses),
                                       top_n)]
  /\ UNCHANGED <<resumes, dbfile, index, completed, lastIngest, calls, client>>

\* the most candidates one ranking is given: at most RecallWidth chunks are
\* recalled, so at most RecallWidth ids
MaxCandidates == 7

\* the ids of the candidates, in the order the resolution stage appends them
CandidateIds == <<"A", "B", "C", "D", "E", "F", "G", "H">>

\* what the oracle answers for the candidates of a ranking: nothing usable,
\* a percentage, or a text float() reads as nan
RankTexts == {<<"g", "o", "o", "d">>, <<" ", "4", "0", "%">>, <<"n", "a", "n">>}

\* lines 113-123 for n resolved candidates, texts[i] the oracle's answer for
\* the i-th
ScoredCandidates(texts) ==
  [i \in 1..Len(texts) |->
     [id |-> CandidateIds[i], summary |-> "sum1",
      match_score |-> CalculateMatchScore([asked |-> TRUE, up |-> TRUE,
                                           text |-> texts[i]]),
      metadata |-> "none"]]

\* The ranking stage of match_job_description (lines 125-127) on its own: n
\* candidates were recalled, resolved and scored, and are sorted and cut.
RankCandidates(n, top_n) ==
  /\ resp = Idle
  /\ n <= Len(CandidateIds)
  /\ \E texts \in [1..n -> RankTexts] :
       resp' = [Idle EXCEPT !.op = "rank", !.top_n = top_n,
                            !.resolved = ScoredCandidates(texts),
                            !.matches = RankMatches(ScoredCandidates(texts), top_n)]
  /\ UNCHANGED <<resumes, dbfile, index, completed, lastIngest, calls, client>>

\* ---------------------------------------------------------------- queries

\* the documents similarity_search returns, nearest first, each named by
\* the key of its chunk
RankedResults(idx, k) ==
  UNION {Orders(hits) : hits \in SearchResults(idx, k)}

\* the ids read off the documents one by one, without set(): an id comes as
\* often as it has chunks among the hits
VisitOrdersNoSet(ranked) == {[i \in 1..Len(ranked) |-> ranked[i][1]]}

\* resume_ids = set([doc.metadata["resume_id"] for doc in results]), and
\* the orders in which `for rid in resume_ids` can visit it
VisitOrders(ranked) == Orders({ranked[i][1] : i \in 1..Len(ranked)})

\* lines 100-102: {"id": rid, **entry} for each visited id the ledger holds
RECURSIVE SearchAnswer(_, _)
SearchAnswer(order, ledger) ==
  IF order = <<>> THEN <<>>
  ELSE IF ledger[Head(order)].present
    THEN <<[id |-> Head(order), entry |-> ledger[Head(order)]]>>
           \o SearchAnswer(Tail(order), ledger)
    ELSE SearchAnswer(Tail(order), ledger)

\* One search_resumes call.  similarity_search raises, and so does the
\* call, which has no handler; or it returns its hits, nearest first.
SearchResumes(s, n_results) ==
  /\ resp = Idle
  /\ \/ resp' = [Idle EXCEPT !.op = "search", !.store = s, !.top_n = n_results,
                             !.search_failed = TRUE, !.raised = TRUE]
     \/ \E ranked \in RankedResults(index, n_results) :
          \E order \in VisitOrders(ranked) :
            resp' = [Idle EXCEPT !.op = "search", !.store = s,
                                 !.top_n = n_results, !.hits = ranked,
                                 !.results = SearchAnswer(order, resumes[s])]
  /\ UNCHANGED <<resumes, dbfile, index, completed, lastIngest, calls, client>>

\* a get_resume call: the stored entry, or None for an id not in the ledger
GetResumeCall(s, id) ==
  /\ resp = Idle
  /\ resp' = [Idle EXCEPT !.op = "get_resume", !.store = s, !.id = id,
                          !.entry = GetResume(resumes[s], id),
                          !.value = IF GetResume(resumes[s], id).present
                                      THEN "entry" ELSE "None"]
  /\ UNCHANGED <<resumes, dbfile, index, completed, lastIngest, calls, client>>

\* lines 196-199: the inner loop over one profile's feedback list
RECURSIVE CountPolarity(_, _)
CountPolarity(feedback, polarity) ==
  IF feedback = <<>> THEN 0
  ELSE (IF Head(feedback).is_positive = polarity THEN 1 ELSE 0)
         + CountPolarity(Tail(feedback), polarity)

\* resume_count incremented for every profile, the feedback list read with
\* a default instead of behind the key test
StatsOfEntryNoKeyTest(entry) ==
  [with |-> 1,
   positive |-> CountPolarity(entry.feedback, TRUE),
   negative |-> CountPolarity(entry.feedback, FALSE)]

\* lines 194-199: what one profile adds to the three counters
StatsOfEntry(entry) ==
  IF entry.hasFb
    THEN [with |-> 1,
          positive |-> CountPolarity(entry.feedback, TRUE),
          negative |-> CountPolarity(entry.feedback, FALSE)]
    ELSE [with |-> 0, positive |-> 0, negative |-> 0]

\* the ids in self.resumes["resumes"]
StoredIds(ledger) == {id \in ProfileIds : ledger[id].present}

\* line 193: the loop over the profiles, one after another
RECURSIVE SumStats(_, _)
SumStats(ledger, ids) ==
  IF ids = {} THEN [with |-> 0, positive |-> 0, negative |-> 0]
  ELSE LET id == CHOOSE x \in ids : TRUE
           one == StatsOfEntry(ledger[id])
           rest == SumStats(ledger, ids \ {id})
       IN  [with |-> one.with + rest.with,
            positive |-> one.positive + rest.positive,
            negative |-> one.negative + rest.negative]

\* get_feedback_stats()
FeedbackStats(ledger) ==
  LET totals == SumStats(ledger, StoredIds(ledger))
  IN  [total_positive |-> totals.positive,
       total_negative |-> totals.negative,
       resume_count_with_feedback |-> totals.with,
       total_resume_count |-> Cardinality(StoredIds(ledger))]

GetFeedbackStats(s) ==
  /\ resp = Idle
  /\ resp' = [Idle EXCEPT !.op = "get_feedback_stats", !.store = s,
                          !.stats = FeedbackStats(resumes[s])]
  /\ UNCHANGED <<resumes, dbfile, index, completed, lastIngest, calls, client>>

\* ------------------------------------------------ ResumeValidator.is_resume

\* the least stripped length of a text that is scored (line 118)
MinLength == 200

Blanks(n) == [i \in 1..n |-> " "]

Letters(n) == [i \in 1..n |-> "x"]

\* the character strings of the documents: empty, blank, one character
\* short of MinLength without and with surrounding blanks, and MinLength
\* long without and with leading blanks
DocChars ==
  {<<>>, Blanks(5),
   Letters(MinLength - 1), Blanks(5) \o Letters(MinLength - 1) \o Blanks(1),
   Letters(MinLength), Blanks(5) \o Letters(MinLength)}

\* the documents: a text without a letter holds no pattern
Docs ==
  {d \in [chars : DocChars, sections : 0..3, jobs : 0..2, dates : 0..3,
          techs : {0, 1, 2, 5}] :
     Strip(d.chars) = <<>> => (d.sections = 0 /\ d.jobs = 0 /\ d.dates = 0
                                /\ d.techs = 0)}

\* the length test made on the text as given, blanks included
IsTooShortRaw(text) == Len(text.chars) < MinLength

\* line 118: not text or len(text.strip()) < 200
IsTooShort(text) == text.chars = <<>> \/ Len(Strip(text.chars)) < MinLength

\* lines 133-138
SectionScore(section_matches) ==
  IF section_matches >= 3 THEN 40 ELSE IF section_matches >= 1 THEN 20 ELSE 0

\* lines 146-151
JobScore(job_matches) ==
  IF job_matches >= 2 THEN 20 ELSE IF job_matches >= 1 THEN 10 ELSE 0

\* the lower band tested with == 1: two date patterns score nothing
DateScoreExactlyOne(date_matches) ==
  IF date_matches >= 3 THEN 20 ELSE IF date_matches = 1 THEN 10 ELSE 0

\* lines 158-163
DateScore(date_matches) ==
  IF date_matches >= 3 THEN 20 ELSE IF date_matches >= 1 THEN 10 ELSE 0

\* the second test an `if` of its own in place of `elif`: five terms score
\* in both bands
TechScoreBothBands(tech_matches) ==
  (IF tech_matches >= 5 THEN 20 ELSE 0) + (IF tech_matches >= 2 THEN 10 ELSE 0)

\* lines 171-176
TechScore(tech_matches) ==
  IF tech_matches >= 5 THEN 20 ELSE IF tech_matches >= 2 THEN 10 ELSE 0

\* lines 124-176: the score, and the families that added to it, in order
Score(text) ==
  SectionScore(text.sections) + JobScore(text.jobs)
    + DateScore(text.dates) + TechScore(text.techs)

Explanation(text) ==
  (IF SectionScore(text.sections) > 0 THEN <<"sections">> ELSE <<>>)
    \o (IF JobScore(text.jobs) > 0 THEN <<"jobs">> ELSE <<>>)
    \o (IF DateScore(text.dates) > 0 THEN <<"dates">> ELSE <<>>)
    \o (IF TechScore(text.techs) > 0 THEN <<"techs">> ELSE <<>>)

\* is_resume(text): (is_resume, confidence, explanation); the confidence
\* score / 100 is kept in hundredths
IsResume(text) ==
  IF IsTooShort(text)
    THEN [verdict |-> FALSE, confidence |-> 0, explanation |-> <<"too_short">>]
    ELSE [verdict |-> Score(text) >= 50, confidence |-> Score(text),
          explanation |-> Explanation(text)]

\* one is_resume call
ValidateResume(text) ==
  /\ resp = Idle
  /\ resp' = [Idle EXCEPT !.op = "is_resume", !.doc = text,
                          !.verdict = IsResume(text).verdict,
                          !.confidence = IsResume(text).confidence,
                          !.explanation = IsResume(text).explanation]
  /\ UNCHANGED <<resumes, dbfile, index, completed, lastIngest, calls, client>>

\* ------------------------------------------ OllamaClient.summarize_resume

\* MAX_RETRIES, the retries argument's default
MAX_RETRIES == 2

\* the largest retry budget a call is made with
MaxBudget == 4

RetryBudgets == 0..MaxBudget

\* how one requests.post attempt can end: a JSON body with "response", a
\* JSON body without it, requests.exceptions.Timeout, ConnectionError, any
\* other RequestException (raise_for_status among them), any other exception
PostOutcomes ==
  {"response", "no_response_key", "timeout", "connection_error",
   "request_exception", "exception"}

\* one more attempt than the budget allows
MayAttemptOnceMore(attempt, retries) == attempt <= retries + 1

\* `attempt <= retries`: the test of the while loop (line 202) and of the
\* timeout handler (line 224)
MayAttempt(attempt, retries) == attempt <= retries

\* wait_time = 2 ** attempt
Backoff(attempt) == 2 ^ attempt

\* lines 195-201: an empty text raises before any request; otherwise the
\* loop starts with attempt = 0
SummarizeResume(blank, retries) ==
  /\ client.pc = "idle"
  /\ client' = IF blank
                 THEN [IdleClient EXCEPT !.pc = "done", !.retries = retries,
                                         !.result = "raised", !.error = "empty"]
                 ELSE [IdleClient EXCEPT !.pc = "while", !.retries = retries]
  /\ UNCHANGED <<resumes, dbfile, index, completed, lastIngest, calls, resp>>

\* line 202: while attempt <= retries; a loop that ends falls off the end
\* of the function, which returns None
WhileTest ==
  /\ client.pc = "while"
  /\ client' = IF MayAttempt(client.attempt, client.retries)
                 THEN [client EXCEPT !.pc = "post"]
                 ELSE [client EXCEPT !.pc = "done", !.result = "None"]
  /\ UNCHANGED <<resumes, dbfile, index, completed, lastIngest, calls, resp>>

\* the error each handler of lines 222-237 gives a failed attempt
ErrorOf(outcome) ==
  CASE outcome = "connection_error" -> "cannot_connect"
    [] outcome = "request_exception" -> "request_failed"
    [] OTHER -> "unexpected"

\* a handler that also goes round the loop for ConnectionError
RetriedAlsoConnection(outcome) == outcome \in {"timeout", "connection_error"}

\* line 222: the one handler that does not raise at once, that of
\* requests.exceptions.Timeout
Retried(outcome) == outcome = "timeout"

\* lines 203-237: one requests.post and what follows it
Post(outcome) ==
  /\ client.pc = "post"
  /\ LET sent == [client EXCEPT !.posts = @ + 1,
                                !.outcomes = Append(@, outcome)]
         attempt == client.attempt + 1
     IN  client' =
           IF outcome = "response"
             THEN [sent EXCEPT !.pc = "done", !.result = "summary"]
           ELSE IF Retried(outcome)
             THEN IF MayAttempt(attempt, client.retries)
                    THEN [sent EXCEPT !.pc = "sleep", !.attempt = attempt,
                                      !.waits = Append(@, Backoff(attempt))]
                    ELSE [sent EXCEPT !.pc = "done", !.attempt = attempt,
                                      !.result = "raised",
                                      !.error = "timed_out"]
           ELSE [sent EXCEPT !.pc = "done", !.result = "raised",
                             !.error = ErrorOf(outcome)]
  /\ UNCHANGED <<resumes, dbfile, index, completed, lastIngest, calls, resp>>

\* line 227: time.sleep(wait_time) returns and the loop goes round
Sleep ==
  /\ client.pc = "sleep"
  /\ client' = [client EXCEPT !.pc = "while"]
  /\ UNCHANGED <<resumes, dbfile, index, completed, lastIngest, calls, resp>>

\* the caller has the summary or the error
ClientReturn ==
  /\ client.pc = "done"
  /\ client' = IdleClient
  /\ UNCHANGED <<resumes, dbfile, index, completed, lastIngest, calls, resp>>

\* ------------------------------------------- CharacterTextSplitter (pure)
\* add_resume builds CharacterTextSplitter(chunk_size=1000, chunk_overlap=100)
\* and calls split_text.  The class is langchain's; with its defaults it cuts
\* the text at every "\n\n", drops empty pieces and merges the pieces back
\* (_merge_splits), joined by "\n\n", into chunks.  A text is modelled as
\* the lengths of its paragraphs, each without blanks at either end, and a
\* chunk as the span [lo, hi) of the text's characters it holds.

ChunkSize == 1000
ChunkOverlap == 100
SeparatorLen == 2

ParagraphLengths == {50, 400, 600, 1500}

ParagraphTexts == UNION {[1..n -> ParagraphLengths] : n \in 0..MaxParagraphs}

RECURSIVE SumLen(_)
SumLen(lens) == IF lens = <<>> THEN 0 ELSE Head(lens) + SumLen(Tail(lens))

\* len(text) for paragraphs joined by "\n\n"
TextLength(text) ==
  IF text = <<>> THEN 0 ELSE SumLen(text) + SeparatorLen * (Len(text) - 1)

\* where paragraph i starts in the text
StartOf(text, i) == SumLen(SubSeq(text, 1, i - 1)) + SeparatorLen * (i - 1)

SepIf(cond) == IF cond THEN SeparatorLen ELSE 0

\* _join_docs: the paragraphs of current_doc joined by the separator
JoinDocs(text, current_doc) ==
  [lo |-> StartOf(text, Head(current_doc)),
   hi |-> StartOf(text, current_doc[Len(current_doc)])
            + text[current_doc[Len(current_doc)]]]

\* the inner while of _merge_splits: pieces are popped from the front until
\* what is kept fits the overlap and leaves room for the next piece
RECURSIVE PopFront(_, _, _, _)
PopFront(text, current_doc, total, len) ==
  IF \/ total > ChunkOverlap
     \/ /\ total + len + SepIf(current_doc # <<>>) > ChunkSize
        /\ total > 0
    THEN PopFront(text, Tail(current_doc),
                  total - (text[Head(current_doc)] + SepIf(Len(current_doc) > 1)),
                  len)
    ELSE [current_doc |-> current_doc, total |-> total]

\* _merge_splits from piece i on; a piece longer than chunk_size is kept
\* whole (the library only logs a warning)
RECURSIVE MergeSplits(_, _, _, _, _)
MergeSplits(text, i, current_doc, total, docs) ==
  IF i > Len(text)
    THEN IF current_doc = <<>> THEN docs
         ELSE Append(docs, JoinDocs(text, current_doc))
    ELSE
      LET len == text[i]
          flush == /\ total + len + SepIf(current_doc # <<>>) > ChunkSize
                   /\ current_doc # <<>>
          kept == IF flush THEN PopFront(text, current_doc, total, len)
                  ELSE [current_doc |-> current_doc, total |-> total]
          next_doc == Append(kept.current_doc, i)
      IN  MergeSplits(text, i + 1, next_doc,
                      kept.total + len + SepIf(Len(next_doc) > 1),
                      IF flush THEN Append(docs, JoinDocs(text, current_doc))
                      ELSE docs)

\* text_splitter.split_text(resume_text), line 73
SplitParagraphs(text) == MergeSplits(text, 1, <<>>, 0, <<>>)

SplitResume(text) ==
  /\ resp = Idle
  /\ resp' = [Idle EXCEPT !.op = "split_text", !.paragraphs = text,
                          !.chunks = SplitParagraphs(text)]
  /\ UNCHANGED <<resumes, dbfile, index, completed, lastIngest, calls, client>>

\* ---------------------------------------------------- CandidateRankerAgent

\* "\u2022 No key terms extracted", what _extract_key_terms returns when the
\* chain raised
NoKeyTerms == "No key terms extracted"

\* how an LLMChain.run call ends
ChainOutcomes == {"answered", "raised"}

\* _extract_key_terms without its try/except: the chain's exception goes up
ExtractKeyTermsUnguarded(outcome) ==
  IF outcome = "raised"
    THEN [raised |-> TRUE, key_terms |-> ""]
    ELSE [raised |-> FALSE, key_terms |-> "terms"]

\* lines 352-358: the chain's answer, or the sentinel when it raised
ExtractKeyTerms(outcome) ==
  IF outcome = "raised"
    THEN [raised |-> FALSE, key_terms |-> NoKeyTerms]
    ELSE [raised |-> FALSE, key_terms |-> "terms"]

\* lines 368-372: the ids among resume_ids that get_resume resolves
RECURSIVE ResumeSummaries(_, _)
ResumeSummaries(resume_ids, ledger) ==
  IF resume_ids = <<>> THEN <<>>
  ELSE IF GetResume(ledger, Head(resume_ids)).present
    THEN <<Head(resume_ids)>> \o ResumeSummaries(Tail(resume_ids), ledger)
    ELSE ResumeSummaries(Tail(resume_ids), ledger)

\* One rank_candidates call: the key-term chain and the ranking chain each
\* answer or raise.
CandidateRanker(s, resume_ids, extraction, ranking) ==
  LET extracted == ExtractKeyTerms(extraction)
      summaries == ResumeSummaries(resume_ids, resumes[s])
      answer == [Idle EXCEPT !.op = "rank_candidates", !.store = s,
                             !.resume_ids = resume_ids]
  IN  /\ resp = Idle
      /\ resp' =
           IF resume_ids = <<>>
             THEN [answer EXCEPT !.value = "No resumes provided for ranking"]
           ELSE IF extracted.raised
             THEN [answer EXCEPT !.extraction = extraction, !.raised = TRUE]
           ELSE IF summaries = <<>>
             THEN [answer EXCEPT !.extraction = extraction,
                                 !.key_terms = extracted.key_terms,
                                 !.value = "No valid resumes found to rank"]
           ELSE [answer EXCEPT !.extraction = extraction,
                               !.key_terms = extracted.key_terms,
                               !.rank_called = TRUE,
                               !.rank_key_terms = extracted.key_terms,
                               !.value = IF ranking = "raised"
                                           THEN "Error ranking candidates"
                                           ELSE "ranking"]
      /\ UNCHANGED <<resumes, dbfile, index, completed, lastIngest, calls, client>>

\* --------------------------------------------------------- POST /summarize

\* the documents uploaded in this model: every character string, with no
\* pattern, with patterns worth 40, worth 50 and worth 100
UploadedDocs ==
  {d \in Docs :
     <<d.sections, d.jobs, d.dates, d.techs>>
       \in {<<0, 0, 0, 0>>, <<1, 1, 1, 0>>, <<1, 1, 1, 2>>, <<3, 2, 3, 5>>}}

\* how ollama_client.summarize_resume ends for the handler: with a summary,
\* or with the ResumeAnalyzerError it raises
ClientResults == Summaries \cup {"raised"}

\* the verdict not looked at: every text goes on to be summarised
AcceptsAll(text) == TRUE

\* lines 117-119: is_resume, confidence, explanation = is_resume(text)
Accepts(text) == IsResume(text).verdict

\* lines 139-142: the status the handler's except clauses give an exception
\* raised inside the try block.  except ResumeAnalyzerError answers 400;
\* except Exception answers 500, and HTTPException is an Exception
Caught(exc) == IF exc = "ResumeAnalyzerError" THEN 400 ELSE 500

\* the resume_text add_resume gets: the documents have no paragraph break
\* and come out of the splitter as one chunk
DocText(doc) == IF Strip(doc.chars) = <<>> THEN 0 ELSE 1

\* where the handler stops for these inputs
StageOf(exists, extracted, text, generated, fault) ==
  IF ~exists THEN "not_found"
  ELSE IF ~extracted THEN "extract_failed"
  ELSE IF Strip(text.chars) = <<>> THEN "empty"
  ELSE IF ~Accepts(text) THEN "not_resume"
  ELSE IF generated = "raised" THEN "summary_failed"
  ELSE IF fault # "none" THEN "store_failed"
  ELSE "ok"

\* the status code of the answer
StatusOf(stage) ==
  CASE stage = "not_found" -> 404
    [] stage = "extract_failed" -> Caught("ResumeAnalyzerError")
    [] stage = "empty" -> Caught("HTTPException")
    [] stage = "not_resume" -> Caught("HTTPException")
    [] stage = "summary_failed" -> Caught("ResumeAnalyzerError")
    [] stage = "store_failed" -> Caught("Exception")
    [] OTHER -> 200

\* One POST /summarize.  The uploaded file exists or not; extract_text
\* returns text or raises ResumeAnalyzerError; the client returns a summary
\* or raises; add_resume(file_id, text, summary) returns or raises at fault.
HandleSummarize(s, file_id, exists, extracted, text, generated, fault) ==
  LET stage == StageOf(exists, extracted, text, generated, fault)
      stored == stage \in {"store_failed", "ok"}
      validated == stage \notin {"not_found", "extract_failed", "empty"}
  IN  /\ resp = Idle
      /\ fault \in SaveOutcomes \cup {"add_texts"}
      /\ resp' = [Idle EXCEPT
                    !.op = "summarize", !.store = s, !.id = file_id,
                    !.stage = stage, !.status = StatusOf(stage),
                    !.doc = IF exists /\ extracted THEN text ELSE NoDoc,
                    !.verdict = validated /\ IsResume(text).verdict,
                    !.confidence = IF validated THEN IsResume(text).confidence
                                   ELSE 0,
                    !.summary = IF stored THEN generated ELSE "",
                    !.fault = IF stored THEN fault ELSE "none",
                    !.raised = (stage # "ok")]
      /\ IF stored
           THEN /\ resumes' = [resumes EXCEPT ![s] =
                                 LedgerAfterAdd(@, file_id, generated, "none")]
                /\ dbfile' = SaveDb(dbfile, resumes'[s],
                                    IF fault \in SaveOutcomes THEN fault ELSE "none")
                /\ index' = IndexAfter(index, file_id, DocText(text), "none",
                                       ChunksWritten(DocText(text), fault, 0))
                /\ completed' = IF fault = "none"
                                  THEN [completed EXCEPT ![s] = @ \cup {file_id}]
                                  ELSE completed
                /\ lastIngest' = [lastIngest EXCEPT ![s][file_id] =
                                    IF fault = "none" THEN "ok"
                                    ELSE IF fault \in SaveOutcomes THEN "save_failed"
                                    ELSE "index_failed"]
           ELSE UNCHANGED <<resumes, dbfile, index, completed, lastIngest>>
      /\ UNCHANGED <<calls, client>>

\* --------------------------------------------------------- specifications

\* the store the sequential specifications drive
Primary == "w1"

\* The ledger: add_resume (the vector store may fail), add_feedback (the
\* save may fail either way), restarts of the process.
Ingest ==
  \E id \in {"A", "B"}, summary \in Summaries, fault \in {"none", "add_texts"} :
    AddResume(Primary, id, 1, summary, "none", fault, 0)

Feedback ==
  \E id \in {"A", "B"}, is_positive \in BOOLEAN, fault \in SaveOutcomes :
    AddFeedback(Primary, id, is_positive, "t1", fault)

Lookup == \E id \in {"A", "B"} : GetResumeCall(Primary, id)

Next ==
  \/ Ingest
  \/ Feedback
  \/ Lookup
  \/ GetFeedbackStats(Primary)
  \/ Restart(Primary)
  \/ Reply

Spec == Init /\ [][Next]_vars

\* Ingestion: add_resume of texts of every length, failing in json.dump, in
\* add_texts at any chunk or in persist, and restarts of the process.
IngestAny ==
  \E id \in {"A", "B"}, text \in Texts, summary \in Summaries,
     fault \in IngestFaults \ {"open"}, k \in ChunkSlots :
    AddResume(Primary, id, text, summary, "none", fault, k)

NextIngest ==
  \/ IngestAny
  \/ Restart(Primary)
  \/ Reply

SpecIngest == Init /\ [][NextIngest]_vars

\* Matching: profiles are ingested (a save may fail, the process may restart)
\* and matched against job descriptions.
IngestForMatch ==
  \E id \in ProfileIds, fault \in {"none", "dump"} :
    AddResume(Primary, id, 1, "sum1", "none", fault, 0)

Match == \E top_n \in 0..MaxTopN : MatchJobDescription(Primary, top_n)

NextMatch ==
  \/ IngestForMatch
  \/ Restart(Primary)
  \/ Match
  \/ Reply

SpecMatch == Init /\ [][NextMatch]_vars

\* Concurrent feedback: two callers, each making one add_feedback call, through
\* either store; the profiles are ingested before the first call starts.
NoCallYet == \A c \in Callers : calls[c].pc = "idle"

IngestBeforeCalls ==
  /\ NoCallYet
  /\ \E s \in Stores, id \in {"A", "B"} :
       AddResume(s, id, 1, "sum1", "none", "none", 0)

RestartBeforeCalls == NoCallYet /\ \E s \in Stores : Restart(s)

NextConc ==
  \/ IngestBeforeCalls
  \/ RestartBeforeCalls
  \/ Reply
  \/ \E c \in Callers, s \in Stores, id \in {"A", "B"}, is_positive \in BOOLEAN :
       FbCall(c, s, id, is_positive, IF c = "c1" THEN "t1" ELSE "t2")
  \/ \E c \in Callers : FbCheck(c)
  \/ \E c \in Callers : FbAppend(c)
  \/ \E c \in Callers : FbSave(c)

SpecConc == Init /\ [][NextConc]_vars

\* Searching: two profiles of one or two chunks are ingested (a save may
\* fail, the process may restart) and searched for.
IngestForSearch ==
  \E id \in {"A", "B"}, text \in {1, 2}, fault \in {"none", "dump"} :
    AddResume(Primary, id, text, "sum1", "none", fault, 0)

Search == \E n_results \in 1..MaxTopN : SearchResumes(Primary, n_results)

NextSearch ==
  \/ IngestForSearch
  \/ Restart(Primary)
  \/ Search
  \/ Reply

SpecSearch == Init /\ [][NextSearch]_vars

\* Reading: the profiles of the search specification, matched and searched
\* for.
NextRead ==
  \/ IngestForSearch
  \/ Restart(Primary)
  \/ Match
  \/ Search
  \/ Reply

SpecRead == Init /\ [][NextRead]_vars

\* Validation: is_resume on every document.
Validate == \E text \in Docs : ValidateResume(text)

NextValidate ==
  \/ Validate
  \/ Reply

SpecValidate == Init /\ [][NextValidate]_vars

\* The ingestion path: uploads of two files summarised through the API,
\* restarts of the process.
\* the inputs a request does not get to are left at one value
Upload ==
  \E file_id \in {"A", "B"} :
    \/ HandleSummarize(Primary, file_id, FALSE, TRUE, NoDoc, "raised", "none")
    \/ HandleSummarize(Primary, file_id, TRUE, FALSE, NoDoc, "raised", "none")
    \/ \E text \in UploadedDocs :
         IF Strip(text.chars) = <<>> \/ ~Accepts(text)
           THEN HandleSummarize(Primary, file_id, TRUE, TRUE, text, "raised", "none")
           ELSE \/ HandleSummarize(Primary, file_id, TRUE, TRUE, text, "raised", "none")
                \/ \E generated \in Summaries, fault \in {"none", "dump", "add_texts"} :
                     HandleSummarize(Primary, file_id, TRUE, TRUE, text, generated, fault)

NextApi ==
  \/ Upload
  \/ Restart(Primary)
  \/ Reply

SpecApi == Init /\ [][NextApi]_vars

\* The splitter alone, over every text of up to MaxParagraphs paragraphs.
Split == \E text \in ParagraphTexts : SplitResume(text)

NextSplit ==
  \/ Split
  \/ Reply

SpecSplit == Init /\ [][NextSplit]_vars

\* The ranking agent: profiles are ingested (a save may fail, the process
\* may restart) and lists of up to two ids are ranked.
RankRequests ==
  {<<>>} \cup {<<a>> : a \in ProfileIds}
    \cup {<<a, b>> : a \in ProfileIds, b \in ProfileIds}

AgentRank ==
  \E resume_ids \in RankRequests, extraction \in ChainOutcomes,
     ranking \in ChainOutcomes :
    CandidateRanker(Primary, resume_ids, extraction, ranking)

NextRanker ==
  \/ IngestForMatch
  \/ Restart(Primary)
  \/ AgentRank
  \/ Reply

SpecRanker == Init /\ [][NextRanker]_vars

\* Ranking: lists of up to MaxCandidates scored candidates, returned whole or
\* cut to MaxTopN.
Rank ==
  \E n \in 0..MaxCandidates, top_n \in {MaxTopN, MaxCandidates} :
    RankCandidates(n, top_n)

NextRank ==
  \/ Rank
  \/ Reply

SpecRank == Init /\ [][NextRank]_vars

\* The summarising client: calls with every retry budget, every attempt
\* ending in any of the ways a request can end.  A request returns or raises
\* within its timeout and a sleep ends, so each step of a call is taken.
Summarize ==
  \E blank \in BOOLEAN, retries \in RetryBudgets : SummarizeResume(blank, retries)

Attempt == \E outcome \in PostOutcomes : Post(outcome)

NextClient ==
  \/ Summarize
  \/ WhileTest
  \/ Attempt
  \/ Sleep
  \/ ClientReturn

SpecClient ==
  /\ Init
  /\ [][NextClient]_vars
  /\ WF_vars(WhileTest)
  /\ WF_vars(Attempt)
  /\ WF_vars(Sleep)

\* ------------------------------------------------------------------ claims

IsPrefix(a, b) == Len(a) <= Len(b) /\ SubSeq(b, 1, Len(a)) = a

InSeq(e, q) == \E i \in 1..Len(q) : q[i] = e

\* the ids the scoring oracle was called for in the call resp answers
Asked(r) == {id \in ProfileIds : r.oracle[id].asked}

\* every scoring call of the match call raised, and there was at least one
OracleDown(r) == Asked(r) # {} /\ \A id \in Asked(r) : ~r.oracle[id].up

\* C1: when the scoring oracle is unreachable for a whole
\* match_job_description call, the call reports a failure to its caller
\* instead of returning a list.
C1_OutageReported == (resp.op = "match" /\ OracleDown(resp)) => resp.raised

\* C2: add_resume on an id the ledger already holds keeps the feedback
\* that id has accumulated, in the same order.
C2_AddResumeKeepsFeedback ==
  [][resp'.op = "add_resume" =>
       \A id \in ProfileIds :
         IsPrefix(resumes[Primary][id].feedback, resumes'[Primary][id].feedback)]_vars

\* the index holds at least one chunk of this id
HasChunks(id) == \E key \in StoredKeys(index) : key[1] = id

\* C3: in every reachable state an id is in the ledger exactly if an
\* add_resume for it has completed, and exactly if the index holds chunks
\* of it.
C3_LedgerIffCompleted ==
  \A id \in ProfileIds :
    /\ resumes[Primary][id].present <=> id \in completed[Primary]
    /\ resumes[Primary][id].present <=> HasChunks(id)

\* both callers' add_feedback calls on one id have returned True
BothReturned(c, d) ==
  /\ c # d
  /\ calls[c].pc = "done" /\ calls[c].value = "True"
  /\ calls[d].pc = "done" /\ calls[d].value = "True"
  /\ calls[c].id = calls[d].id

\* C4: once two concurrent add_feedback calls on the same id have both
\* returned, both events are in that id's feedback, in the memory of the
\* store each call went through and in the ledger file.
C4_NoLostFeedback ==
  \A c, d \in Callers :
    BothReturned(c, d) =>
      \A e \in {calls[c].ev, calls[d].ev} :
        /\ InSeq(e, resumes[calls[c].store][calls[c].id].feedback)
        /\ InSeq(e, dbfile.db[calls[c].id].feedback)

\* C5: match_job_description returns no id the ledger does not hold; a
\* recalled chunk of an unknown id is dropped and the call still answers.
C5_OnlyLedgerIds ==
  resp.op = "match" =>
    /\ ~resp.raised
    /\ \A i \in 1..Len(resp.matches) :
         resumes[resp.store][resp.matches[i].id].present

\* a match call that recalled a chunk of an id the ledger does not hold,
\* and returned results all the same
C5_Witness ==
  /\ resp.op = "match" /\ ~resp.search_failed
  /\ \E key \in StoredKeys(index) : ~resumes[resp.store][key[1]].present
  /\ resp.matches # <<>>

\* C6: match_job_description returns at most top_n results.
C6_AtMostTopN == resp.op = "match" => Len(resp.matches) <= resp.top_n

\* a match call with more scored candidates than top_n, cut to top_n
C6_Witness ==
  /\ resp.op = "match"
  /\ resp.top_n >= 1
  /\ Cardinality(Asked(resp)) > resp.top_n
  /\ Len(resp.matches) = resp.top_n

\* C7: the list match_job_description returns is sorted by non-increasing
\* match_score: each result's score is >= the next one's.
C7_SortedByScore ==
  resp.op = "match" =>
    \A i \in 1..(Len(resp.matches) - 1) :
      ScoreGe(resp.matches[i].match_score, resp.matches[i + 1].match_score)

\* what each oracle text is worth, in hundredths, as a table
ExpectedScore(text) ==
  CASE text = <<"8", "5">> -> [nan |-> FALSE, v |-> 85]
    [] text = <<" ", "4", "0", "%">> -> [nan |-> FALSE, v |-> 40]
    [] text = <<"1", "5", "0">> -> [nan |-> FALSE, v |-> 150]
    [] text = <<"-", "2", "0">> -> [nan |-> FALSE, v |-> 0 - 20]
    [] text = <<"n", "a", "n">> -> [nan |-> TRUE, v |-> 0]
    [] OTHER -> [nan |-> FALSE, v |-> 0]

NonNumeric == <<"g", "o", "o", "d">>

\* C8: a non-numeric oracle text for one candidate does not fail the call:
\* every scored candidate is returned (up to top_n), the others with their
\* parsed scores and the malformed one with score 0.
C8_ParseFailureIsolated ==
  (resp.op = "match" /\ ~resp.search_failed) =>
    /\ ~resp.raised
    /\ Len(resp.matches) = Min(resp.top_n, Cardinality(Asked(resp)))
    /\ \A i, j \in 1..Len(resp.matches) :
         i # j => resp.matches[i].id # resp.matches[j].id
    /\ \A i \in 1..Len(resp.matches) :
         LET m == resp.matches[i]
             o == resp.oracle[m.id]
         IN  /\ o.asked
             /\ m.match_score = IF o.up THEN ExpectedScore(o.text) ELSE ZeroScore

\* a match call over three candidates, one answered with a non-numeric
\* text and two with numbers, all three returned
C8_Witness ==
  /\ resp.op = "match"
  /\ Len(resp.matches) = 3
  /\ \E i, j, k \in 1..3 :
       /\ i # j /\ i # k /\ j # k
       /\ resp.oracle[resp.matches[i].id].text = NonNumeric
       /\ resp.matches[i].match_score = ZeroScore
       /\ resp.oracle[resp.matches[j].id].text = <<"8", "5">>
       /\ resp.matches[j].match_score.v = 85
       /\ resp.oracle[resp.matches[k].id].text = <<" ", "4", "0", "%">>
       /\ resp.matches[k].match_score.v = 40

\* C9: every match_score returned lies in [0,1] (0..100 hundredths).
C9_ScoreInUnitInterval ==
  resp.op = "match" =>
    \A i \in 1..Len(resp.matches) :
      /\ ~resp.matches[i].match_score.nan
      /\ resp.matches[i].match_score.v >= 0
      /\ resp.matches[i].match_score.v <= 100

\* C10: an add_resume whose ledger write succeeded and whose vector-store
\* write failed raises instead of returning the id, leaving the ledger
\* entry; an add_resume that returns has put its own entry under the id.
C10_IndexFailureReported ==
  resp.op = "add_resume" =>
    /\ resp.fault \in {"add_texts", "persist"} =>
         /\ resp.raised
         /\ resp.value # resp.id
         /\ resumes[resp.store][resp.id].present
    /\ ~resp.raised =>
         /\ resp.value = resp.id
         /\ resumes[resp.store][resp.id] = NewEntry(resp.summary, resp.metadata)
         /\ dbfile = [valid |-> TRUE, db |-> resumes[resp.store]]

\* an add_resume that returned, for an id whose previous add_resume had
\* failed in the vector store
C10_Witness ==
  /\ resp.op = "add_resume"
  /\ ~resp.raised
  /\ resp.retry

\* the chunks the index holds under an id, with how many copies of each
ChunksOf(idx, id) == [slot \in ChunkSlots |-> idx[<<id, slot>>]]

\* C11: add_resume is idempotent for identical input.  A returned
\* add_resume leaves the state one more call with the same arguments starts
\* from (its entry in the ledger, one copy of each of its chunks in the
\* index), and a returned add_resume that starts from such a state changes
\* neither the ledger nor the index: n calls leave what one call leaves,
\* with exactly one chunk per (id, chunk sequence number).
C11_AddResumeIdempotent ==
  [][(resp'.op = "add_resume" /\ ~resp'.raised) =>
       /\ resumes'[resp'.store][resp'.id] =
            [present |-> TRUE, summary |-> resp'.summary,
             metadata |-> resp'.metadata, hasFb |-> FALSE, feedback |-> <<>>]
       /\ \A slot \in ChunkSlots :
            LET chunk == ChunksOf(index', resp'.id)[slot]
            IN  /\ chunk.copies = IF chunk.present THEN 1 ELSE 0
                /\ slot < resp'.text =>
                     /\ chunk.present
                     /\ chunk.text = resp'.text
                     /\ chunk.metadata = resp'.metadata
       /\ resp'.again => (resumes' = resumes /\ index' = index)]_vars

\* an add_resume of a text of two chunks or more that returned, made with
\* the arguments of the call that wrote the entry and the chunks it found
C11_Witness ==
  /\ resp.op = "add_resume"
  /\ ~resp.raised
  /\ resp.again
  /\ resp.text >= 2

\* the feedback events the ledger holds with this polarity, as (id, position)
StoredEvents(ledger, polarity) ==
  {pair \in ProfileIds \X (1..MaxFeedback) :
     /\ ledger[pair[1]].present
     /\ pair[2] <= Len(ledger[pair[1]].feedback)
     /\ ledger[pair[1]].feedback[pair[2]].is_positive = polarity}

\* the only profile is A, and its feedback is one positive event followed
\* by one negative event
OnePositiveThenOneNegativeOnA(ledger) ==
  /\ \A id \in ProfileIds : ledger[id].present <=> id = "A"
  /\ Len(ledger["A"].feedback) = 2
  /\ ledger["A"].feedback[1].is_positive
  /\ ~ledger["A"].feedback[2].is_positive

\* C12: get_feedback_stats returns the number of stored positive events,
\* the number of stored negative events, the number of profiles with at
\* least one event and the number of profiles, whatever add_resume and
\* add_feedback calls came before; one positive then one negative event on
\* the only profile A give (1, 1, 1, 1).
C12_StatsCountLedger ==
  resp.op = "get_feedback_stats" =>
    LET ledger == resumes[resp.store]
    IN  /\ resp.stats.total_positive = Cardinality(StoredEvents(ledger, TRUE))
        /\ resp.stats.total_negative = Cardinality(StoredEvents(ledger, FALSE))
        /\ resp.stats.resume_count_with_feedback =
             Cardinality({id \in ProfileIds :
                            ledger[id].present /\ Len(ledger[id].feedback) >= 1})
        /\ resp.stats.total_resume_count =
             Cardinality({id \in ProfileIds : ledger[id].present})
        /\ OnePositiveThenOneNegativeOnA(ledger) =>
             resp.stats = [total_positive |-> 1, total_negative |-> 1,
                           resume_count_with_feedback |-> 1,
                           total_resume_count |-> 1]

\* get_feedback_stats answered over two profiles, one with a positive and a
\* negative event and one without feedback
C12_Witness ==
  /\ resp.op = "get_feedback_stats"
  /\ resumes[resp.store]["A"].present /\ resumes[resp.store]["B"].present
  /\ resumes[resp.store]["B"].feedback = <<>>
  /\ Len(resumes[resp.store]["A"].feedback) = 2
  /\ resumes[resp.store]["A"].feedback[1].is_positive
  /\ ~resumes[resp.store]["A"].feedback[2].is_positive

\* C13: operations on an id the ledger does not hold return an absence and
\* change nothing: get_resume returns None; add_feedback returns False
\* without raising, and neither the ledger in memory, nor the ledger file,
\* nor the index is written.
C13_UnknownIdChangesNothing ==
  [][((resp'.op \in {"get_resume", "add_feedback"})
        /\ ~resumes[resp'.store][resp'.id].present) =>
       /\ ~resp'.raised
       /\ resp'.value = IF resp'.op = "get_resume" THEN "None" ELSE "False"
       /\ resumes' = resumes
       /\ dbfile' = dbfile
       /\ index' = index]_vars

\* add_feedback has returned False for an unknown id while the ledger file
\* is behind the memory of the store: a save would have shown
C13_Witness ==
  /\ resp.op = "add_feedback"
  /\ resp.value = "False"
  /\ ~resumes[resp.store][resp.id].present
  /\ dbfile.valid
  /\ dbfile.db # resumes[resp.store]

\* get_resume has returned None for an unknown id, next to a stored profile
C13_WitnessGet ==
  /\ resp.op = "get_resume"
  /\ resp.value = "None"
  /\ \E id \in ProfileIds : resumes[resp.store][id].present

\* C14: a failure or crash during a ledger write does not corrupt what was
\* durable: the ledger a store constructed next would load is either the
\* complete ledger the file held before the write or the complete ledger
\* the write was saving, never an empty or partial one.
C14_WriteFailureKeepsLedger ==
  [][(resp'.op \in {"add_resume", "add_feedback"}
        /\ resp'.fault \in {"open", "dump"}) =>
       LoadDb(dbfile') \in {LoadDb(dbfile), resumes'[resp'.store]}]_vars

\* a mutating ledger call has returned to its caller
Returned(r) ==
  \/ r.op = "add_resume" /\ ~r.raised
  \/ r.op = "add_feedback" /\ r.value = "True"

\* C15: every mutating ledger call persists before returning: when
\* add_resume or a successful add_feedback returns, the ledger file holds
\* exactly the ledger the store has in memory, and a store constructed from
\* the file loads that ledger, every profile and feedback event of it.
C15_PersistedOnReturn ==
  Returned(resp) =>
    /\ dbfile.valid
    /\ dbfile.db = resumes[resp.store]
    /\ LoadDb(dbfile) = resumes[resp.store]
    /\ \A id \in ProfileIds :
         /\ LoadDb(dbfile)[id].present = resumes[resp.store][id].present
         /\ LoadDb(dbfile)[id].feedback = resumes[resp.store][id].feedback

\* add_feedback has returned True for the second event of a profile, with
\* another profile and its feedback in the same ledger
C15_Witness ==
  /\ resp.op = "add_feedback"
  /\ resp.value = "True"
  /\ Len(resumes[resp.store][resp.id].feedback) = 2
  /\ \E id \in ProfileIds \ {resp.id} :
       /\ resumes[resp.store][id].present
       /\ resumes[resp.store][id].feedback # <<>>

\* the call is between its first loop test and its return or raise
InLoop == client.pc \in {"while", "post", "sleep"}

\* every attempt made so far has timed out
AllTimedOut ==
  \A i \in 1..Len(client.outcomes) : client.outcomes[i] = "timeout"

\* each wait is twice the one before, starting from 2 seconds
Doubling(waits) ==
  /\ Len(waits) >= 1 => waits[1] = 2
  /\ \A i \in 2..Len(waits) : waits[i] = 2 * waits[i - 1]

\* C16: summarize_resume with retry budget r issues at most r + 1
\* requests, waits between consecutive attempts with doubling delays, and
\* when every attempt has timed out raises the timeout error after exactly
\* r + 1 requests and r waits; a call in its loop always comes to its end.
C16_BoundedRetry ==
  /\ [](/\ client.posts <= client.retries + 1
        /\ Doubling(client.waits)
        /\ (InLoop /\ AllTimedOut) => Len(client.waits) = client.attempt
        /\ (client.pc = "done" /\ client.outcomes # <<>> /\ AllTimedOut) =>
             /\ client.result = "raised"
             /\ client.error = "timed_out"
             /\ client.posts = client.retries + 1
             /\ Len(client.waits) = client.retries)
  /\ (InLoop ~> client.pc = "done")

\* a call with the default budget whose three requests all timed out
C16_Witness ==
  /\ client.pc = "done"
  /\ client.retries = MAX_RETRIES
  /\ client.outcomes = <<"timeout", "timeout", "timeout">>
  /\ client.waits = <<2, 4>>
  /\ client.error = "timed_out"

\* where the candidate with this id stands in a list of matches
PositionOf(id, matches) == CHOOSE i \in 1..Len(matches) : matches[i].id = id

\* two scores compare equal (a nan equals nothing, itself included)
ScoreEq(a, b) == ~a.nan /\ ~b.nan /\ a.v = b.v

\* C17: candidates with equal match_score are returned in the order in
\* which the resolution stage appended them: the sort is stable on ties,
\* and the list is cut to top_n after it.
C17_StableOnTies ==
  resp.op \in {"match", "rank"} =>
    /\ \A i, j \in 1..Len(resp.matches) :
         (i < j /\ ScoreEq(resp.matches[i].match_score,
                           resp.matches[j].match_score)) =>
           PositionOf(resp.matches[i].id, resp.resolved)
             < PositionOf(resp.matches[j].id, resp.resolved)
    /\ \A i \in 1..Len(resp.matches) :
         \A k \in 1..Len(resp.resolved) :
           (/\ ScoreEq(resp.resolved[k].match_score,
                       resp.matches[i].match_score)
            /\ k < PositionOf(resp.matches[i].id, resp.resolved)) =>
             \E j \in 1..(i - 1) : resp.matches[j] = resp.resolved[k]

\* the place of an id's nearest chunk among the hits, nearest first
NearestHit(id, hits) == CHOOSE i \in 1..Len(hits) :
  /\ hits[i][1] = id
  /\ \A j \in 1..(i - 1) : hits[j][1] # id

\* C18: search_resumes returns the profiles in the index's distance order:
\* a profile whose nearest recalled chunk is closer to the query than
\* another's stands before it in the result.
C18_DistanceOrder ==
  resp.op = "search" =>
    \A i, j \in 1..Len(resp.results) :
      NearestHit(resp.results[i].id, resp.hits)
          < NearestHit(resp.results[j].id, resp.hits)
        => i < j

\* C19: search_resumes(query, n) returns each profile id at most once, at
\* most n profiles, only profiles the ledger holds, each with its ledger
\* entry, and, when the index is empty, an empty list and no failure.
C19_SearchSafe ==
  (resp.op = "search" /\ ~resp.search_failed) =>
    /\ ~resp.raised
    /\ \A i, j \in 1..Len(resp.results) :
         i # j => resp.results[i].id # resp.results[j].id
    /\ Len(resp.results) <= resp.top_n
    /\ \A i \in 1..Len(resp.results) :
         /\ resumes[resp.store][resp.results[i].id].present
         /\ resp.results[i].entry = resumes[resp.store][resp.results[i].id]
         /\ \E key \in StoredKeys(index) : key[1] = resp.results[i].id
    /\ StoredKeys(index) = {} => resp.results = <<>>

\* a search whose hits include two chunks of one profile and a chunk of an
\* id the ledger does not hold, answered with the one profile
C19_Witness ==
  /\ resp.op = "search"
  /\ Len(resp.hits) = 3
  /\ \E i, j \in 1..3 : i # j /\ resp.hits[i][1] = resp.hits[j][1]
  /\ \E i \in 1..3 : ~resumes[resp.store][resp.hits[i][1]].present
  /\ Len(resp.results) = 1

\* a search of an empty index, answered with an empty list
C19_WitnessEmpty ==
  /\ resp.op = "search"
  /\ ~resp.raised
  /\ StoredKeys(index) = {}
  /\ resp.results = <<>>

\* the characters of a text that are not blanks
NonBlank(chars) == {i \in 1..Len(chars) : chars[i] # " "}

\* the length of a text from its first to its last non-blank character
CoreLength(chars) ==
  IF NonBlank(chars) = {} THEN 0
  ELSE (CHOOSE i \in NonBlank(chars) : \A j \in (i + 1)..Len(chars) : chars[j] = " ")
         - (CHOOSE i \in NonBlank(chars) : \A j \in 1..(i - 1) : chars[j] = " ") + 1

\* C20: on an empty text, and on a text whose stripped length is below 200
\* characters, is_resume returns the verdict False with confidence 0,
\* whichever rubric keywords the text contains.
C20_ShortTextRejected ==
  (resp.op = "is_resume" /\ CoreLength(resp.doc.chars) < 200) =>
    /\ ~resp.verdict
    /\ resp.confidence = 0

\* is_resume has answered for a text of more than 200 characters, 199 of
\* them between its surrounding blanks, with the patterns of every family
\* at their highest score
C20_Witness ==
  /\ resp.op = "is_resume"
  /\ Len(resp.doc.chars) > 200
  /\ CoreLength(resp.doc.chars) = 199
  /\ resp.doc.sections >= 3 /\ resp.doc.jobs >= 2
  /\ resp.doc.dates >= 3 /\ resp.doc.techs >= 5
  /\ ~resp.verdict

\* what a family adds for a count: high from the upper threshold on, low
\* from the lower threshold on, nothing below
Band(count, lower, low, upper, high) ==
  IF count >= upper THEN high ELSE IF count >= lower THEN low ELSE 0

\* the rubric as a table: sections 1 -> 20, 3 -> 40; job titles 1 -> 10,
\* 2 -> 20; dates 1 -> 10, 3 -> 20; technical terms 2 -> 10, 5 -> 20
RubricSum(d) ==
  Band(d.sections, 1, 20, 3, 40) + Band(d.jobs, 1, 10, 2, 20)
    + Band(d.dates, 1, 10, 3, 20) + Band(d.techs, 2, 10, 5, 20)

\* C21: for a text at or above the minimum length, the score is the sum of
\* the four families' contributions, lies in 0..100, the confidence is
\* score / 100 (kept in hundredths) and the verdict is True exactly when
\* the score is at least 50, for every combination of match counts.
C21_ScoreIsRubricSum ==
  (resp.op = "is_resume" /\ CoreLength(resp.doc.chars) >= 200) =>
    /\ resp.confidence = RubricSum(resp.doc)
    /\ resp.confidence >= 0
    /\ resp.confidence <= 100
    /\ resp.verdict <=> resp.confidence >= 50

\* is_resume has answered True with confidence 1.0 for a text of 200
\* characters whose every family is at its upper threshold
C21_Witness ==
  /\ resp.op = "is_resume"
  /\ CoreLength(resp.doc.chars) = 200
  /\ resp.doc.sections = 3 /\ resp.doc.jobs = 2
  /\ resp.doc.dates = 3 /\ resp.doc.techs = 5
  /\ resp.confidence = 100
  /\ resp.verdict

Families == {"sections", "jobs", "dates", "techs"}

Count(d, family) ==
  CASE family = "sections" -> d.sections
    [] family = "jobs" -> d.jobs
    [] family = "dates" -> d.dates
    [] OTHER -> d.techs

\* the counts each family takes among the documents
CountsOf == [family \in Families |-> {Count(d, family) : d \in Docs}]

\* d with the count of one family set to n and nothing else changed
WithCount(d, family, n) ==
  CASE family = "sections" -> [d EXCEPT !.sections = n]
    [] family = "jobs" -> [d EXCEPT !.jobs = n]
    [] family = "dates" -> [d EXCEPT !.dates = n]
    [] OTHER -> [d EXCEPT !.techs = n]

\* C22: each family contributes independently and monotonically: a text
\* that differs from the one answered only by a higher count in one family
\* gets a score that is not lower and keeps a True verdict, and the gain
\* is the same whatever count another family has.
C22_FamiliesMonotone ==
  (resp.op = "is_resume" /\ CoreLength(resp.doc.chars) >= 200) =>
    \A family \in Families :
      \A n \in CountsOf[family] :
        n > Count(resp.doc, family) =>
          LET raised == IsResume(WithCount(resp.doc, family, n))
          IN  /\ raised.confidence >= resp.confidence
              /\ resp.verdict => raised.verdict
              /\ \A other \in Families \ {family} :
                   \A m \in CountsOf[other] :
                     LET d2 == WithCount(resp.doc, other, m)
                     IN  IsResume(WithCount(d2, family, n)).confidence
                           - IsResume(d2).confidence
                           = raised.confidence - resp.confidence

\* is_resume has answered True at the threshold, with one date pattern and
\* room to raise every family
C22_Witness ==
  /\ resp.op = "is_resume"
  /\ CoreLength(resp.doc.chars) >= 200
  /\ resp.doc.sections = 1 /\ resp.doc.jobs = 1
  /\ resp.doc.dates = 1 /\ resp.doc.techs = 2
  /\ resp.confidence = 50
  /\ resp.verdict

\* C23: matching and searching are read-only: a match_job_description or
\* search_resumes call, answered or failed, leaves every store's ledger
\* (profiles, summaries, metadata, feedback), the ledger file and the
\* index's chunks as they were.
C23_ReadOnly ==
  [][resp'.op \in {"match", "search"} =>
       /\ resumes' = resumes
       /\ dbfile' = dbfile
       /\ index' = index]_vars

\* a match has scored and returned two profiles of a ledger whose file is
\* behind it
C23_Witness ==
  /\ resp.op = "match"
  /\ Len(resp.matches) = 2
  /\ dbfile.db # resumes[resp.store]

\* the answer of a POST /summarize that stored nothing
Rejected(r) == r.op = "summarize" /\ r.stage \notin {"store_failed", "ok"}

\* C24: in POST /summarize, add_resume is invoked only after the extracted
\* text is non-empty, is_resume returned True and the summary was
\* generated; a request that stops before leaves ledger, ledger file and
\* index as they were.
C24_StoreOnlyAfterChecks ==
  [][resp'.op = "summarize" =>
       /\ (resumes' # resumes \/ dbfile' # dbfile \/ index' # index) =>
            ~Rejected(resp')
       /\ ~Rejected(resp') =>
            /\ NonBlank(resp'.doc.chars) # {}
            /\ CoreLength(resp'.doc.chars) >= 200
            /\ RubricSum(resp'.doc) >= 50
            /\ resp'.verdict
            /\ resp'.summary \in Summaries
       /\ Rejected(resp') =>
            (resumes' = resumes /\ dbfile' = dbfile /\ index' = index)]_vars

\* a POST /summarize for a document that scored 40 was answered without a
\* write, next to a profile stored earlier
C24_Witness ==
  /\ resp.op = "summarize"
  /\ resp.stage = "not_resume"
  /\ resp.confidence = 40
  /\ ~resumes[Primary][resp.id].present
  /\ \E id \in ProfileIds : resumes[Primary][id].present

\* C29: POST /summarize answers with status 400 when the extracted text is
\* empty and when the validator rejects the document; these rejections are
\* not answered as a 500 server error.
C29_ValidationIs400 ==
  (resp.op = "summarize" /\ resp.stage \in {"empty", "not_resume"}) =>
    resp.status = 400

\* C25: when the key-term chain raises, _extract_key_terms returns the
\* sentinel instead of raising and rank_candidates goes on as it does after
\* a successful extraction: it does not raise, and whenever one of the ids
\* resolves it invokes the ranking chain, with the sentinel as key terms.
C25_ExtractionFailureTolerated ==
  (resp.op = "rank_candidates" /\ resp.extraction = "raised") =>
    /\ ~resp.raised
    /\ resp.key_terms = "No key terms extracted"
    /\ resp.rank_called <=>
         \E i \in 1..Len(resp.resume_ids) :
           resumes[resp.store][resp.resume_ids[i]].present
    /\ resp.rank_called =>
         /\ resp.rank_key_terms = "No key terms extracted"
         /\ resp.value \in {"ranking", "Error ranking candidates"}

\* a ranking was returned for a stored and an unknown id after the
\* key-term chain had raised
C25_Witness ==
  /\ resp.op = "rank_candidates"
  /\ resp.extraction = "raised"
  /\ Len(resp.resume_ids) = 2
  /\ resumes[resp.store][resp.resume_ids[1]].present
  /\ ~resumes[resp.store][resp.resume_ids[2]].present
  /\ resp.value = "ranking"

\* C26: the chunks of a text, concatenated with the first chunk_overlap
\* characters of every chunk but the first removed, are the text again
\* (the first chunk starts the text, each next chunk starts chunk_overlap
\* characters before the end of the one before, the last chunk ends the
\* text); no chunk is longer than chunk_size.
C26_ChunkRoundTrip ==
  resp.op = "split_text" =>
    LET chunks == resp.chunks
        n == Len(chunks)
    IN  /\ \A k \in 1..n : chunks[k].hi - chunks[k].lo <= ChunkSize
        /\ resp.paragraphs = <<>> => n = 0
        /\ resp.paragraphs # <<>> =>
             /\ n >= 1
             /\ chunks[1].lo = 0
             /\ \A k \in 1..(n - 1) :
                  chunks[k + 1].lo = chunks[k].hi - ChunkOverlap
             /\ chunks[n].hi = TextLength(resp.paragraphs)

\* the feedback list of an entry, empty when the entry has no "feedback" key
FeedbackOf(entry) == IF entry.hasFb THEN entry.feedback ELSE <<>>

\* C27: an add_feedback call that returns True leaves the profile's
\* feedback as it was with the call's event added at the end, keeps the
\* profile's summary and metadata, and changes no other profile and no
\* other store.
C27_FeedbackAppendOnly ==
  [][(resp = Idle /\ resp'.op = "add_feedback" /\ resp'.value = "True") =>
       LET s == resp'.store
           id == resp'.id
           before == FeedbackOf(resumes[s][id])
           after == resumes'[s][id]
       IN  /\ after.present /\ after.hasFb
           /\ Len(after.feedback) = Len(before) + 1
           /\ SubSeq(after.feedback, 1, Len(before)) = before
           /\ <<after.feedback[Len(after.feedback)]>> = resp'.event
           /\ after.summary = resumes[s][id].summary
           /\ after.metadata = resumes[s][id].metadata
           /\ \A other \in ProfileIds \ {id} :
                resumes'[s][other] = resumes[s][other]
           /\ \A w \in DOMAIN resumes \ {s} : resumes'[w] = resumes[w]]_vars

\* a second, different event was added to a profile while another profile
\* holds feedback of its own
C27_Witness ==
  /\ resp.op = "add_feedback"
  /\ resp.value = "True"
  /\ Len(resumes[resp.store][resp.id].feedback) = 2
  /\ resumes[resp.store][resp.id].feedback[1] # resumes[resp.store][resp.id].feedback[2]
  /\ \E other \in ProfileIds \ {resp.id} :
       /\ resumes[resp.store][other].present
       /\ resumes[resp.store][other].feedback # <<>>

\* C28: when add_resume(id, text2) returns after an add_resume on id that
\* returned, the index chunks owned by id are exactly the chunks of text2:
\* one under each sequence number text2 produces, holding text2, and none
\* under any other sequence number.
C28_NoStaleChunks ==
  [][(/\ resp = Idle
      /\ resp'.op = "add_resume"
      /\ ~resp'.raised
      /\ lastIngest[resp'.store][resp'.id] = "ok") =>
       \A slot \in ChunkSlots :
         LET chunk == ChunksOf(index', resp'.id)[slot]
         IN  /\ chunk.present <=> slot < Len(SplitText(resp'.text))
             /\ chunk.present => chunk.text = resp'.text]_vars

\* the attempts that end in an error other than a timeout
HardFailures ==
  {"no_response_key", "connection_error", "request_exception", "exception"}

\* C30: summarize_resume retries only on timeouts.  A request that ends in
\* a connection error or any other error that is not a timeout is the last
\* request of the call: the call has raised, no wait follows that request
\* (every wait follows a timed-out request), and when it is the first
\* request the call made exactly one request and no wait, whatever the
\* retry budget.
C30_RetryOnlyOnTimeout ==
  \A i \in 1..Len(client.outcomes) :
    client.outcomes[i] \in HardFailures =>
      /\ i = Len(client.outcomes)
      /\ client.pc = "done"
      /\ client.result = "raised"
      /\ client.error \in {"cannot_connect", "request_failed", "unexpected"}
      /\ client.posts = i
      /\ Len(client.waits) = i - 1
      /\ \A j \in 1..(i - 1) : client.outcomes[j] = "timeout"
      /\ i = 1 => (client.posts = 1 /\ client.waits = <<>>)

\* a call with the largest retry budget raised on a connection error at
\* its first request
C30_Witness ==
  /\ client.pc = "done"
  /\ client.retries = MaxBudget
  /\ client.outcomes = <<"connection_error">>
  /\ client.posts = 1
  /\ client.waits = <<>>
  /\ client.result = "raised"
  /\ client.error = "cannot_connect"

====
